---- MODULE Spec2Model ----
(***************************************************************************)
(* protomod: pruning of Protocol-Buffer service definitions.               *)
(*                                                                         *)
(* The model follows src/protomod/modifier.py (class ProtoModifier: the    *)
(* usage graph, the resolver, the tree walk that both builds the graph and *)
(* re-emits text, the propagator) and src/protomod/main.py (the three      *)
(* passes over the corpus).  A parsed file is a sequence of file elements; *)
(* every token text the code inspects is kept: type names as their dotted  *)
(* segments, option names and string literals as their characters/parts.   *)
(***************************************************************************)
EXTENDS Integers, Sequences, FiniteSets, TLC

VARIABLES
  files,                          \* the corpus, in the order process_files visits it
  include_rpc_with_option_names,  \* ProtoModifier.include_rpc_with_option_names (-n)
  phase,                          \* position of main(): which pass is running
  pos,                            \* index of the next file the running pass visits
  heap,                           \* the UsageNode objects, in creation order
  usage_nodes,                    \* ProtoModifier.usage_nodes: (package, name) -> object
  package_name,                   \* ProtoModifier.package_name (Unset until first set)
  usage_graph_creation_phase,     \* ProtoModifier.usage_graph_creation_phase
  rendered_files,                 \* ProtoModifier.rendered_files
  prop,                           \* position inside update_should_render_state, and
                                  \* the symbols that were alive when it was called
  dest,                           \* destination tree: path -> text written
  reported,                       \* what main() printed: the path and the error
  visits                          \* the callbacks process_files has made, in order

vars == <<files, include_rpc_with_option_names, phase, pos, heap, usage_nodes,
          package_name, usage_graph_creation_phase, rendered_files, prop, dest,
          reported, visits>>

-----------------------------------------------------------------------------
(* Bounds of the model *)

\* the corpus holds at most this many .proto files
MaxFiles == 2

\* frames update_should_render_state_each may have on the call stack
MaxDepth == 12

\* every order is tried over up to this many symbols
MaxPermute == 4

-----------------------------------------------------------------------------
(* Token texts *)

None == 0
Unset == <<"<unset>">>
NoError == "none"

\* str.islower / str.isupper of a segment's first character (modifier.py 1082-1083)
LowerInitial == {"p", "q", "r", "google", "protobuf", "s"}
UpperInitial == {"A", "B", "C", "D", "E", "F", "K", "L", "N", "U",
                 "Get", "Put", "Nop", "Outer", "Inner", "MethodOptions", "Ping", "Pong",
                 "H", "Box", "Hue", "Take", "Mix", "Go", "Tone"}

IsLower(seg) == seg \in LowerInitial
IsUpper(seg) == seg \in UpperInitial

\* A variant of ScalarTypes in which the list lacks the 32-bit integer and the
\* boolean type.
ScalarTypesShort ==
  {"string", "bytes", "float", "double", "int64", "uint32", "uint64",
   "sint32", "sint64", "fixed32", "fixed64", "sfixed32", "sfixed64"}

ScalarTypes == {"bool", "string", "bytes", "float", "double",
                "int32", "int64", "uint32", "uint64", "sint32",
                "sint64", "fixed32", "fixed64", "sfixed32", "sfixed64"}

GoogleProtobuf == <<"google", "protobuf">>

\* s[1:-1]
Strip(s) == IF Len(s) < 2 THEN <<>> ELSE SubSeq(s, 2, Len(s) - 1)

\* a typeName node: optional leading DOT and the qualified identifier
T(segs) == [dot |-> FALSE, segs |-> segs]
DotT(segs) == [dot |-> TRUE, segs |-> segs]

\* generate_type_name followed by str.split("."): a leading dot yields a first
\* part that is the empty string
generate_type_name(node) == IF node.dot THEN <<"">> \o node.segs ELSE node.segs

\* an optionName node: ( ident | L_PAREN typeName R_PAREN ), as its characters
PlainOpt(chars) == [paren |-> FALSE, name |-> chars]
ParenOpt(chars) == [paren |-> TRUE, name |-> chars]

generate_option_name(node) ==
  IF node.paren THEN <<"(">> \o node.name \o <<")">> ELSE node.name

\* a stringLiteral token of an import: the quotes and the path parts between
generate_imported_file_name(node) == <<"\"">> \o node.path \o <<"\"">>

\* os.path.join(relative_path, file), relative_path = os.path.relpath(root, source_dir)
RelPath(f) == f.dir \o <<f.name>>

-----------------------------------------------------------------------------
(* The usage graph: class UsageNode and ProtoModifier.usage_nodes *)

\* the ProtoModifier fields a tree walk reads and writes, and the exception
\* (if any) that ended the walk
Walk(nodes, table, pkg, creating) ==
  [heap |-> nodes, usage_nodes |-> table, package_name |-> pkg,
   usage_graph_creation_phase |-> creating, err |-> NoError]

Raise(m, e) == [m EXCEPT !.err = e]

Failed(m) == m.err # NoError

UsageNode(kind, package, name) ==
  [kind |-> kind, package |-> package, name |-> name,
   children |-> <<>>, should_render |-> FALSE]

\* UsageNode.add_child
add_child(m, parent, child) ==
  [m EXCEPT !.heap[parent].children = Append(@, child)]


\* A variant of Intern that makes a new object for every lookup, without
\* consulting the table first.
InternAnew(m, key, kind) ==
  [m EXCEPT !.heap = Append(@, UsageNode(IF kind # "None" THEN kind ELSE "Message",
                                         key[1], key[2])),
            !.usage_nodes = (key :> (Len(m.heap) + 1)) @@ @]

\* lines 1098-1104: the node of the key, created on first encounter; a given
\* kind overwrites the kind of a node that exists
Intern(m, key, kind) ==
  IF key \in DOMAIN m.usage_nodes
  THEN IF kind # "None" THEN [m EXCEPT !.heap[m.usage_nodes[key]].kind = kind] ELSE m
  ELSE [m EXCEPT !.heap = Append(@, UsageNode(IF kind # "None" THEN kind ELSE "Message",
                                              key[1], key[2])),
                 !.usage_nodes = (key :> (Len(m.heap) + 1)) @@ @]

\* lines 1106-1109
Link(m, key, usage_parent) ==
  [m |-> IF usage_parent # None THEN add_child(m, usage_parent, m.usage_nodes[key]) ELSE m,
   node |-> m.usage_nodes[key]]

\* lines 1097-1111
Resolve(m, key, usage_parent, kind) ==
  IF m.usage_graph_creation_phase
  THEN Link(Intern(m, key, kind), key, usage_parent)
  ELSE IF key \in DOMAIN m.usage_nodes
       THEN [m |-> m, node |-> m.usage_nodes[key]]
       ELSE [m |-> Raise(m, "KeyError"), node |-> None]

\* lines 1081-1087 and 1094: the package a reference is resolved under
PackageOf(m, parts) ==
  IF Len(parts) > 1 /\ SelectSeq(parts, IsLower) # <<>>
  THEN SelectSeq(parts, IsLower)
  ELSE m.package_name

\* lines 1083 and 1095: the message-name parts, the last of which is the name
NameParts(parts) == IF Len(parts) > 1 THEN SelectSeq(parts, IsUpper) ELSE parts

\* what lines 1082-1094 raise: x[0] of an empty part, self.package_name before
\* any package declaration set it, message_name_parts[-1] of an empty list
ResolveError(m, parts) ==
  CASE Len(parts) > 1 /\ (\E i \in 1..Len(parts) : parts[i] = "") -> "IndexError"
    [] PackageOf(m, parts) = Unset -> "AttributeError"
    [] NameParts(parts) = <<>> -> "IndexError"
    [] OTHER -> NoError

RECURSIVE create_usage_node_from_type_name(_, _, _, _)
RECURSIVE Intermediates(_, _, _, _, _)

RECURSIVE IntermediatesFlat(_, _, _, _, _)
\* lines 1089-1091 without the assignment of line 1091: every intermediate
\* symbol, and the last part after them, hangs from the caller's usage_parent
IntermediatesFlat(r, package, names, i, kind) ==
  IF Failed(r.m) \/ i >= Len(names) THEN r
  ELSE IntermediatesFlat(
         [m |-> create_usage_node_from_type_name(r.m, package \o <<names[i]>>, r.node, kind).m,
          node |-> r.node],
         package, names, i + 1, kind)

\* lines 1089-1091: the loop over message_name_parts[:-1]; r holds the modifier
\* and the current usage_parent
Intermediates(r, package, names, i, kind) ==
  IF Failed(r.m) \/ i >= Len(names) THEN r
  ELSE Intermediates(
         create_usage_node_from_type_name(r.m, package \o <<names[i]>>, r.node, kind),
         package, names, i + 1, kind)

\* lines 1092 and 1097-1111, after the loop
LastPart(r, package, names, kind) ==
  IF Failed(r.m) THEN [m |-> r.m, node |-> None]
  ELSE Resolve(r.m, <<package, names[Len(names)]>>, r.node, kind)

\* lines 1070-1111; parts is type_name.split(".")
create_usage_node_from_type_name(m, parts, usage_parent, kind) ==
  IF Failed(m) THEN [m |-> m, node |-> None]
  ELSE IF parts[Len(parts)] \in ScalarTypes THEN [m |-> m, node |-> None]
  ELSE IF ResolveError(m, parts) # NoError
  THEN [m |-> Raise(m, ResolveError(m, parts)), node |-> None]
  ELSE LastPart(Intermediates([m |-> m, node |-> usage_parent],
                              PackageOf(m, parts), NameParts(parts), 1, kind),
                PackageOf(m, parts), NameParts(parts), kind)

\* lines 1127-1128
determine_node_state(m, usage_node) == m.heap[usage_node].should_render

-----------------------------------------------------------------------------
(* The tree walk: ProtoModifier.generate_*                                  *)
(* Each operator takes the walk state m and a syntax-tree node and returns  *)
(* the walk state after it, with the emitted text and the should_render     *)
(* flag where the code returns them.  A walk that has raised does nothing   *)
(* more.                                                                    *)

Range(s) == {s[i] : i \in 1..Len(s)}

\* lines 370-386: the flag of one option declaration
generate_option_decl(node) ==
  \/ include_rpc_with_option_names = <<>>
  \/ Strip(generate_option_name(node.name)) \in Range(include_rpc_with_option_names)

\* lines 99-115: the flag of one import declaration
generate_import_decl(node) ==
  Strip(generate_imported_file_name(node)) \in Range(rendered_files)

\* lines 81-91
generate_package_decl(m, node) == [m EXCEPT !.package_name = node.name]

\* lines 683-705
generate_field_decl(m, node, usage_parent) ==
  create_usage_node_from_type_name(m, generate_type_name(node.type), usage_parent, "None").m

\* lines 620-638 and 873-888
generate_map_field_decl(m, node, usage_parent) ==
  create_usage_node_from_type_name(m, generate_type_name(node.type), usage_parent, "None").m

\* lines 560-575: the member's type name is written out and nothing else
generate_oneof_field_decl(m, node) == m

RECURSIVE generate_enum_elements(_, _, _)
\* lines 537-552: an option declaration inside an enum hands a tuple to write()
generate_enum_elements(m, body, i) ==
  IF Failed(m) \/ i > Len(body) THEN m
  ELSE generate_enum_elements(
         IF body[i].t = "option" THEN Raise(m, "TypeError") ELSE m, body, i + 1)

\* lines 845-853, r the enum's node
EnumBody(r, node) ==
  IF Failed(r.m) THEN [m |-> r.m, flag |-> FALSE]
  ELSE [m |-> generate_enum_elements(r.m, node.body, 1),
        flag |-> determine_node_state(r.m, r.node)]

\* lines 835-853
generate_enum_decl(m, node) ==
  EnumBody(create_usage_node_from_type_name(m, <<node.name>>, None, "Enum"), node)

RECURSIVE generate_extension_elements(_, _, _, _)
\* lines 809-819: a group inside extend calls generate_group_decl without indent
generate_extension_elements(m, body, i, usage_node) ==
  IF Failed(m) \/ i > Len(body) THEN m
  ELSE generate_extension_elements(
         IF body[i].t = "field" THEN generate_field_decl(m, body[i], usage_node)
         ELSE Raise(m, "TypeError"),
         body, i + 1, usage_node)

\* lines 867-868, r the extended message's node
ExtensionBody(r, node) == generate_extension_elements(r.m, node.body, 1, r.node)

\* lines 855-871
generate_extension_decl(m, node) ==
  ExtensionBody(
    create_usage_node_from_type_name(m, generate_type_name(node.type), None, "Extend"),
    node)

RECURSIVE generate_message_decl(_, _, _)
RECURSIVE generate_message_elements(_, _, _, _)
RECURSIVE generate_message_element(_, _, _)
RECURSIVE generate_oneof_elements(_, _, _, _)

\* lines 599-612 and 577-597, over the elements of one oneof (lines 731-743)
generate_oneof_elements(m, body, i, usage_parent) ==
  IF Failed(m) \/ i > Len(body) THEN m
  ELSE generate_oneof_elements(
         CASE body[i].t = "oneoffield" -> generate_oneof_field_decl(m, body[i])
           [] body[i].t = "oneofgroup" ->
                generate_message_elements(m, body[i].body, 1, usage_parent)
           [] OTHER -> m,
         body, i + 1, usage_parent)

\* lines 890-917
generate_message_element(m, el, usage_parent) ==
  CASE el.t = "field" -> generate_field_decl(m, el, usage_parent)
    [] el.t = "group" -> generate_message_elements(m, el.body, 1, usage_parent)
    [] el.t = "oneof" -> generate_oneof_elements(m, el.body, 1, usage_parent)
    [] el.t = "message" -> generate_message_decl(m, el, usage_parent).m
    [] el.t = "enum" -> generate_enum_decl(m, el).m
    [] el.t = "extend" -> generate_extension_decl(m, el)
    [] el.t = "map" -> generate_map_field_decl(m, el, usage_parent)
    [] OTHER -> m

\* lines 933-934 (and 725-726, 593-594)
generate_message_elements(m, body, i, usage_parent) ==
  IF Failed(m) \/ i > Len(body) THEN m
  ELSE generate_message_elements(generate_message_element(m, body[i], usage_parent),
                                 body, i + 1, usage_parent)

\* lines 927-940, r the message's node: the flag is read before the body is
\* walked, and the name is resolved a second time after it
MessageBody(r, node, usage_parent) ==
  IF Failed(r.m) THEN [m |-> r.m, flag |-> FALSE]
  ELSE [m |-> create_usage_node_from_type_name(
                generate_message_elements(r.m, node.body, 1, r.node),
                <<node.name>>, usage_parent, "None").m,
        flag |-> determine_node_state(r.m, r.node)]

\* lines 919-940
generate_message_decl(m, node, usage_parent) ==
  MessageBody(create_usage_node_from_type_name(m, <<node.name>>, usage_parent, "None"),
              node, usage_parent)

\* A variant of generate_method_elements that takes any body within braces for
\* a qualifying one, without looking for an option declaration in it.
generate_method_elements_any_body(node) == ~node.semicolon

\* lines 942-954 and 975-986: some option declaration of the body qualifies; a
\* method that ends in a semicolon has no body
generate_method_elements(node) ==
  /\ ~node.semicolon
  /\ \E i \in 1..Len(node.body) :
       node.body[i].t = "option" /\ generate_option_decl(node.body[i])

\* A variant of Seed that marks every rpc alive, whatever its body holds.
SeedAll(m, usage_node, should_render_this) ==
  IF Failed(m) THEN [m |-> m, flag |-> FALSE]
  ELSE [m |-> [m EXCEPT !.heap[usage_node].should_render = TRUE],
        flag |-> should_render_this]

\* line 988 as a marking that is never taken back
SeedOnce(m, usage_node, should_render_this) ==
  IF Failed(m) THEN [m |-> m, flag |-> FALSE]
  ELSE [m |-> [m EXCEPT !.heap[usage_node].should_render = @ \/ should_render_this],
        flag |-> should_render_this]

\* line 988
Seed(m, usage_node, should_render_this) ==
  IF Failed(m) THEN [m |-> m, flag |-> FALSE]
  ELSE [m |-> [m EXCEPT !.heap[usage_node].should_render = should_render_this],
        flag |-> should_render_this]

\* lines 967-988, r the method's node
MethodBody(r, node) ==
  Seed(create_usage_node_from_type_name(
         create_usage_node_from_type_name(
           r.m, generate_type_name(node.input), r.node, "None").m,
         generate_type_name(node.output), r.node, "None").m,
       r.node, generate_method_elements(node))

\* lines 956-989
generate_method_decl(m, node) ==
  MethodBody(create_usage_node_from_type_name(m, <<node.name>>, None, "Rpc"), node)

\* lines 1000-1002 and 1019-1021: a method is written if its flag is set
Written(r, node, out, flag) ==
  [m |-> r.m, out |-> IF r.flag THEN Append(out, node) ELSE out, flag |-> r.flag \/ flag]

RECURSIVE generate_service_elements(_, _, _)
\* lines 991-1006 over the elements of one service (lines 1018-1021): a method
\* is written if its flag is set; an option declaration or an empty statement
\* returns its text with the flag unset (only a method sets it, lines 998-1001),
\* and line 1021 writes an element's text only if its flag is set, so neither
\* is written; s holds the modifier, the text and the flag so far
generate_service_elements(s, body, i) ==
  IF Failed(s.m) \/ i > Len(body) THEN s
  ELSE generate_service_elements(
         IF body[i].t = "rpc"
         THEN Written(generate_method_decl(s.m, body[i]), body[i], s.out, s.flag)
         ELSE s,
         body, i + 1)

\* lines 1011-1024: the service's own lines around what its elements wrote
ServiceText(s, node) ==
  [m |-> s.m, out |-> <<[t |-> "service", name |-> node.name, body |-> s.out]>>,
   flag |-> s.flag]

\* lines 1008-1024
generate_service_decl(m, node) ==
  ServiceText(generate_service_elements([m |-> m, out |-> <<>>, flag |-> FALSE],
                                        node.body, 1),
              node)

\* A variant of Emit that writes the declaration whatever its flag.
EmitAll(r, el) == [m |-> r.m, out |-> <<el>>, flag |-> r.flag]

\* lines 1038-1044: a message or enum is written if its flag is set
Emit(r, el) == [m |-> r.m, out |-> IF r.flag THEN <<el>> ELSE <<>>, flag |-> r.flag]

\* A variant of generate_file_element in which an extend block sets the
\* file's flag, as a message or enum that is written does.
generate_file_element_extend_counts(m, el) ==
  CASE el.t = "import" ->
         [m |-> m, out |-> IF generate_import_decl(el) THEN <<el>> ELSE <<>>, flag |-> FALSE]
    [] el.t = "package" ->
         [m |-> generate_package_decl(m, el), out |-> <<el>>, flag |-> FALSE]
    [] el.t = "message" -> Emit(generate_message_decl(m, el, None), el)
    [] el.t = "enum" -> Emit(generate_enum_decl(m, el), el)
    [] el.t = "extend" ->
         [m |-> generate_extension_decl(m, el), out |-> <<el>>, flag |-> TRUE]
    [] el.t = "service" -> generate_service_decl(m, el)
    [] OTHER -> [m |-> m, out |-> <<el>>, flag |-> FALSE]

\* lines 1026-1055
generate_file_element(m, el) ==
  CASE el.t = "import" ->
         [m |-> m, out |-> IF generate_import_decl(el) THEN <<el>> ELSE <<>>, flag |-> FALSE]
    [] el.t = "package" ->
         [m |-> generate_package_decl(m, el), out |-> <<el>>, flag |-> FALSE]
    [] el.t = "message" -> Emit(generate_message_decl(m, el, None), el)
    [] el.t = "enum" -> Emit(generate_enum_decl(m, el), el)
    [] el.t = "extend" ->
         [m |-> generate_extension_decl(m, el), out |-> <<el>>, flag |-> FALSE]
    [] el.t = "service" -> generate_service_decl(m, el)
    [] OTHER -> [m |-> m, out |-> <<el>>, flag |-> FALSE]

\* A variant of Gather that keeps the flag of the last element only.
GatherLast(s, r) == [m |-> r.m, out |-> s.out \o r.out, flag |-> r.flag]

\* lines 1065-1067
Gather(s, r) == [m |-> r.m, out |-> s.out \o r.out, flag |-> s.flag \/ r.flag]

RECURSIVE generate_file_elements(_, _, _)
\* lines 1064-1067
generate_file_elements(s, elems, i) ==
  IF Failed(s.m) \/ i > Len(elems) THEN s
  ELSE generate_file_elements(Gather(s, generate_file_element(s.m, elems[i])),
                              elems, i + 1)

\* lines 1057-1068
generate_file(m, node) ==
  generate_file_elements(
    [m |-> m, out |-> IF node.syntax THEN <<[t |-> "syntax"]>> ELSE <<>>, flag |-> FALSE],
    node.elems, 1)

\* line 43, which an exception skips
EndCreation(m) ==
  IF Failed(m) THEN m ELSE [m EXCEPT !.usage_graph_creation_phase = FALSE]

\* lines 38-44
create_usage_graph(m, tree) ==
  EndCreation(generate_file([m EXCEPT !.usage_graph_creation_phase = TRUE], tree).m)

\* lines 46-47
regenerate_file(m, tree) == generate_file(m, tree)

-----------------------------------------------------------------------------
(* The corpus: syntax trees as the Syntax Provider hands them over *)

Pkg(segs) == [t |-> "package", name |-> segs]
Imp(parts) == [t |-> "import", path |-> parts]
Opt(optionName) == [t |-> "option", name |-> optionName]
Empty == [t |-> "empty"]
Val == [t |-> "value"]
Msg(name, body) == [t |-> "message", name |-> name, body |-> body]
En(name, body) == [t |-> "enum", name |-> name, body |-> body]
Ext(type, body) == [t |-> "extend", type |-> type, body |-> body]
Svc(name, body) == [t |-> "service", name |-> name, body |-> body]
\* rpc ... { body }  and  rpc ... ;
Rpc(name, input, output, body) ==
  [t |-> "rpc", name |-> name, input |-> input, output |-> output,
   semicolon |-> FALSE, body |-> body]
RpcSemi(name, input, output) ==
  [t |-> "rpc", name |-> name, input |-> input, output |-> output,
   semicolon |-> TRUE, body |-> <<>>]
Fld(type) == [t |-> "field", type |-> type]
MapF(type) == [t |-> "map", type |-> type]
OneOf(body) == [t |-> "oneof", body |-> body]
OneofFld(type) == [t |-> "oneoffield", type |-> type]
Grp(body) == [t |-> "group", body |-> body]

tracked == <<"t", "r", "a", "c", "k", "e", "d">>
deprecated == <<"d", "e", "p", "r", "e", "c", "a", "t", "e", "d">>

\* a.proto, directly in the source root
FileA ==
  [dir |-> <<".">>, name |-> "a.proto", syntax |-> TRUE, flaky |-> FALSE, elems |-> <<
     Pkg(<<"p">>),
     Msg("A", <<Fld(T(<<"B">>))>>),
     Msg("B", <<Fld(T(<<"int32">>))>>),
     Msg("C", <<>>),
     Svc("S", <<Rpc("Get", T(<<"A">>), T(<<"B">>), <<Opt(ParenOpt(tracked))>>)>>) >>]

\* sub/b.proto: map value, oneof member and group field types, a cycle D -> F -> D
FileB ==
  [dir |-> <<"sub">>, name |-> "b.proto", syntax |-> TRUE, flaky |-> FALSE, elems |-> <<
     Pkg(<<"q">>),
     Imp(<<"a.proto">>),
     Imp(<<"sub", "c.proto">>),
     Msg("D", <<MapF(T(<<"p", "A">>)),
                OneOf(<<OneofFld(T(<<"E">>))>>),
                Grp(<<Fld(T(<<"F">>))>>)>>),
     Msg("E", <<>>),
     Msg("F", <<Fld(T(<<"D">>))>>),
     En("K", <<Val>>),
     Svc("T", <<Rpc("Put", T(<<"D">>), T(<<"F">>), <<Opt(PlainOpt(deprecated))>>),
                RpcSemi("Nop", T(<<"E">>), T(<<"E">>))>>) >>]

\* sub/c.proto: nested and self-referential messages, a cross-file reference
FileC ==
  [dir |-> <<"sub">>, name |-> "c.proto", syntax |-> TRUE, flaky |-> TRUE, elems |-> <<
     Pkg(<<"q">>),
     Imp(<<"sub", "b.proto">>),
     Msg("Outer", <<Msg("Inner", <<>>), Fld(T(<<"Inner">>))>>),
     Msg("U", <<Fld(T(<<"Outer", "Inner">>)), Fld(T(<<"U">>)), Fld(T(<<"q", "D">>))>>),
     Svc("V", <<Rpc("Get", T(<<"U">>), T(<<"q", "U">>),
                    <<Opt(ParenOpt(tracked)), Opt(PlainOpt(deprecated))>>)>>) >>]

\* d.proto: the file that defines the custom option
FileD ==
  [dir |-> <<".">>, name |-> "d.proto", syntax |-> FALSE, flaky |-> FALSE, elems |-> <<
     Pkg(<<"p">>),
     Imp(<<"google", "protobuf", "descriptor.proto">>),
     Ext(T(<<"google", "protobuf", "MethodOptions">>),
         <<Fld(T(<<"q", "K">>)), Fld(T(<<"bool">>))>>) >>]

\* sub/e.proto: no package declaration; an rpc whose body holds no option
FileE ==
  [dir |-> <<"sub">>, name |-> "e.proto", syntax |-> FALSE, flaky |-> FALSE, elems |-> <<
     Msg("N", <<>>),
     Svc("W", <<Rpc("Get", T(<<"N">>), T(<<"N">>), <<Empty>>)>>) >>]

\* f.proto: a fully-qualified reference with a leading dot
FileF ==
  [dir |-> <<".">>, name |-> "f.proto", syntax |-> TRUE, flaky |-> FALSE, elems |-> <<
     Pkg(<<"r">>),
     Msg("L", <<Fld(DotT(<<"r", "L">>))>>) >>]

\* sub/g.proto: two messages that refer to each other, an rpc method named like
\* one of them, and a later extend block for that message
FileG ==
  [dir |-> <<"sub">>, name |-> "g.proto", syntax |-> TRUE, flaky |-> FALSE, elems |-> <<
     Pkg(<<"r">>),
     Msg("Ping", <<Fld(T(<<"Pong">>))>>),
     Msg("Pong", <<Fld(T(<<"Ping">>))>>),
     Svc("Echo", <<Rpc("Ping", T(<<"Pong">>), T(<<"Pong">>), <<Opt(ParenOpt(tracked))>>)>>),
     Ext(T(<<"Ping">>), <<Fld(T(<<"int32">>))>>) >>]

\* h.proto, directly in the source root: a message declared before the package
\* declaration, and an rpc method named like the one of a.proto, in its package
FileH ==
  [dir |-> <<".">>, name |-> "h.proto", syntax |-> TRUE, flaky |-> FALSE, elems |-> <<
     Msg("H", <<>>),
     Pkg(<<"p">>),
     Imp(<<"a.proto">>),
     Svc("X", <<RpcSemi("Get", T(<<"A">>), T(<<"A">>))>>) >>]

\* sub/i.proto: an enum nested in a message that no field refers to
FileI ==
  [dir |-> <<"sub">>, name |-> "i.proto", syntax |-> TRUE, flaky |-> FALSE, elems |-> <<
     Pkg(<<"s">>),
     Msg("Box", <<En("Hue", <<Val>>), Fld(T(<<"int32">>))>>),
     Svc("Z", <<Rpc("Take", T(<<"Box">>), T(<<"Box">>), <<Opt(ParenOpt(tracked))>>)>>) >>]

\* sub/j.proto: nothing but one message, with an option declaration and an
\* empty statement in it and next to it
FileJ ==
  [dir |-> <<"sub">>, name |-> "j.proto", syntax |-> TRUE, flaky |-> FALSE, elems |-> <<
     Pkg(<<"s">>),
     Opt(PlainOpt(deprecated)),
     Msg("Mix", <<Opt(PlainOpt(deprecated)), Empty>>),
     Empty >>]

\* sub/k.proto: a message and a service, each with an option declaration and
\* an empty statement of its own; a method without an option that is named
\* like the message of sub/j.proto, and a method with one; an import of the
\* file that defines the option
FileK ==
  [dir |-> <<"sub">>, name |-> "k.proto", syntax |-> TRUE, flaky |-> FALSE, elems |-> <<
     Pkg(<<"s">>),
     Imp(<<"d.proto">>),
     Imp(<<"sub", "j.proto">>),
     Msg("Tone", <<Opt(PlainOpt(deprecated)), Fld(T(<<"bool">>)), Empty>>),
     Svc("Y", <<Opt(PlainOpt(deprecated)),
                RpcSemi("Mix", T(<<"Mix">>), T(<<"Mix">>)),
                Rpc("Go", T(<<"Mix">>), T(<<"Tone">>), <<Opt(ParenOpt(tracked))>>),
                Empty>>) >>]

\* the .proto files a source tree may hold, by path
Library == {"h.proto", "sub/i.proto", "sub/g.proto", "a.proto", "sub/b.proto", "sub/c.proto", "d.proto", "sub/e.proto", "f.proto", "sub/j.proto", "sub/k.proto"}

\* lines 49-55: the tree parse_file returns for a path
parse_file(addr) ==
  CASE addr = "a.proto" -> FileA
    [] addr = "sub/b.proto" -> FileB
    [] addr = "sub/c.proto" -> FileC
    [] addr = "d.proto" -> FileD
    [] addr = "sub/e.proto" -> FileE
    [] addr = "f.proto" -> FileF
    [] addr = "sub/g.proto" -> FileG
    [] addr = "h.proto" -> FileH
    [] addr = "sub/i.proto" -> FileI
    [] addr = "sub/j.proto" -> FileJ
    [] addr = "sub/k.proto" -> FileK

\* every corpus of at most MaxFiles distinct files, in every visiting order
Corpora ==
  {c \in UNION {[1..n -> Library] : n \in 0..MaxFiles} :
     \A i, j \in DOMAIN c : i # j => c[i] # c[j]}

\* the -n arguments; without -n the attribute is None, which tests like []
Filters == {<<>>, <<tracked>>, <<deprecated>>, <<tracked, deprecated>>}

\* parse_file(file_path): FileStream may raise on a file that cannot be read
ParseOutcomes(addr) == IF parse_file(addr).flaky THEN {TRUE, FALSE} ELSE {TRUE}

-----------------------------------------------------------------------------
(* main(): the Batch Orchestrator *)

EmptyMap == [k \in {} |-> None]

Init ==
  /\ files \in Corpora
  /\ include_rpc_with_option_names \in Filters
  /\ phase = "GraphBuild"
  /\ pos = 1
  /\ heap = <<>>
  /\ usage_nodes = EmptyMap
  /\ package_name = Unset
  /\ usage_graph_creation_phase = FALSE
  /\ rendered_files = <<>>
  /\ prop = [i |-> 1, stage |-> 1, stack |-> <<>>, seeded |-> {}]
  /\ dest = EmptyMap
  /\ reported = <<>>
  /\ visits = <<>>

Modifier == Walk(heap, usage_nodes, package_name, usage_graph_creation_phase)

\* the fields of the modifier after a walk, whether it returned or raised
Store(m) ==
  /\ heap' = m.heap
  /\ usage_nodes' = m.usage_nodes
  /\ package_name' = m.package_name
  /\ usage_graph_creation_phase' = m.usage_graph_creation_phase

\* an exception in the callback leaves process_files and main
Uncaught(m) ==
  /\ Store(m)
  /\ IF Failed(m)
     THEN phase' = "Aborted" /\ pos' = pos
     ELSE phase' = phase /\ pos' = pos + 1

\* main.py 34-36, called by process_files (21-27): nothing catches an exception
CreateUsageGraph ==
  /\ phase = "GraphBuild"
  /\ pos <= Len(files)
  /\ visits' = Append(visits, <<"GraphBuild", pos>>)
  /\ \E parsed \in ParseOutcomes(files[pos]) :
       Uncaught(IF parsed THEN create_usage_graph(Modifier, parse_file(files[pos]))
                ELSE Raise(Modifier, "IOError"))
  /\ UNCHANGED <<files, include_rpc_with_option_names, rendered_files, prop, dest, reported>>

\* main.py 57-60: one process_files call has returned and the next statement starts
NextPass ==
  /\ phase \in {"GraphBuild", "DryRender", "FinalRender"}
  /\ pos > Len(files)
  /\ phase' = CASE phase = "GraphBuild" -> "Propagate"
                [] phase = "DryRender" -> "FinalRender"
                [] phase = "FinalRender" -> "Done"
  /\ pos' = 1
  /\ prop' = IF phase = "GraphBuild"
             THEN [prop EXCEPT !.seeded = {n \in 1..Len(heap) : heap[n].should_render}]
             ELSE prop
  /\ UNCHANGED <<files, include_rpc_with_option_names, heap, usage_nodes, package_name,
                 usage_graph_creation_phase, rendered_files, dest, reported, visits>>

Push(stack, n) == Append(stack, [node |-> n, c |-> 1])

\* modifier.py 1117-1119 for the node at position i of usage_nodes.values()
GoogleStep(i) ==
  IF heap[i].package = GoogleProtobuf
  THEN /\ heap' = [heap EXCEPT ![i].should_render = TRUE]
       /\ Len(prop.stack) < MaxDepth
       /\ prop' = [prop EXCEPT !.i = i + 1, !.stage = 1, !.stack = Push(@, i)]
  ELSE /\ heap' = heap
       /\ prop' = [prop EXCEPT !.i = i + 1, !.stage = 1]

\* modifier.py 1113-1119: the loop of update_should_render_state, one test a step
UpdateShouldRenderState ==
  /\ phase = "Propagate"
  /\ prop.stack = <<>>
  /\ IF prop.i > Len(heap)
     THEN /\ phase' = "DryRender"
          /\ UNCHANGED <<heap, prop>>
     ELSE /\ phase' = phase
          /\ IF prop.stage = 1 /\ heap[prop.i].kind = "Rpc" /\ heap[prop.i].should_render
             THEN /\ Len(prop.stack) < MaxDepth
                  /\ prop' = [prop EXCEPT !.stage = 2, !.stack = Push(@, prop.i)]
                  /\ heap' = heap
             ELSE GoogleStep(prop.i)
  /\ UNCHANGED <<files, include_rpc_with_option_names, pos, usage_nodes, package_name,
                 usage_graph_creation_phase, rendered_files, dest, reported, visits>>

\* the test of line 1123
NotYetAlive(child) == ~heap[child].should_render

\* modifier.py 1121-1125: one iteration of the loop of the innermost active call
\* of update_should_render_state_each, or its return
UpdateShouldRenderStateEach ==
  /\ phase = "Propagate"
  /\ prop.stack # <<>>
  /\ LET top == Len(prop.stack)
         fr == prop.stack[top]
         children == heap[fr.node].children
     IN IF fr.c > Len(children)
        THEN /\ prop' = [prop EXCEPT !.stack = SubSeq(@, 1, top - 1)]
             /\ heap' = heap
        ELSE LET child == children[fr.c]
                 advanced == [prop.stack EXCEPT ![top].c = fr.c + 1]
             IN IF NotYetAlive(child)
                THEN /\ heap' = [heap EXCEPT ![child].should_render = TRUE]
                     /\ Len(prop.stack) < MaxDepth
                     /\ prop' = [prop EXCEPT !.stack = Push(advanced, child)]
                ELSE /\ heap' = heap
                     /\ prop' = [prop EXCEPT !.stack = advanced]
  /\ UNCHANGED <<files, include_rpc_with_option_names, phase, pos, usage_nodes, package_name,
                 usage_graph_creation_phase, rendered_files, dest, reported, visits>>

\* str(e), which print(e) shows (main.py 53): the message of the exception,
\* without the name of its class; the message of a KeyError is the repr of
\* the key that was looked up
str(e) ==
  CASE e = "KeyError" -> "('package', 'name')"
    [] e = "IndexError" -> "index out of range"
    [] e = "AttributeError" -> "'ProtoModifier' object has no attribute 'package_name'"
    [] e = "IOError" -> "[Errno] cannot read file"
    [] OTHER -> e

\* A variant of Deliver that does not look at dry_run before it writes.
DeliverUnsuppressed(dry_run, rel, r) ==
  /\ Store(r.m)
  /\ IF Failed(r.m)
     THEN /\ reported' = Append(reported, [path |-> rel, error |-> str(r.m.err)])
          /\ UNCHANGED <<dest, rendered_files>>
     ELSE /\ reported' = reported
          /\ dest' = IF r.flag THEN (rel :> r.out) @@ dest ELSE dest
          /\ rendered_files' = IF r.flag /\ dry_run THEN Append(rendered_files, rel)
                               ELSE rendered_files

\* main.py 42-54: what the callback does with the result r of the walk of the
\* file at relative path rel
Deliver(dry_run, rel, r) ==
  /\ Store(r.m)
  /\ IF Failed(r.m)
     THEN /\ reported' = Append(reported, [path |-> rel, error |-> str(r.m.err)])
          /\ UNCHANGED <<dest, rendered_files>>
     ELSE /\ reported' = reported
          /\ dest' = IF r.flag /\ ~dry_run THEN (rel :> r.out) @@ dest ELSE dest
          /\ rendered_files' = IF r.flag /\ dry_run THEN Append(rendered_files, rel)
                               ELSE rendered_files

\* main.py 39-54, called by process_files (21-27)
RegenerateFiles ==
  /\ phase \in {"DryRender", "FinalRender"}
  /\ pos <= Len(files)
  /\ visits' = Append(visits, <<phase, pos>>)
  /\ pos' = pos + 1
  /\ \E parsed \in ParseOutcomes(files[pos]) :
       Deliver(phase = "DryRender", RelPath(parse_file(files[pos])),
               IF parsed THEN regenerate_file(Modifier, parse_file(files[pos]))
               ELSE [m |-> Raise(Modifier, "IOError"), out |-> <<>>, flag |-> FALSE])
  /\ UNCHANGED <<files, include_rpc_with_option_names, phase, prop>>

Next ==
  \/ CreateUsageGraph
  \/ NextPass
  \/ UpdateShouldRenderState
  \/ UpdateShouldRenderStateEach
  \/ RegenerateFiles

Spec == Init /\ [][Next]_vars

\* main() is one sequential thread: while update_should_render_state runs
\* (main.py 58), a step of it that can be taken is taken
FairSpec ==
  Spec /\ WF_vars(UpdateShouldRenderState) /\ WF_vars(UpdateShouldRenderStateEach)

-----------------------------------------------------------------------------
(* The corpus as the specification reads it: declarations, the references   *)
(* of each declaration, and the options that qualify an rpc                 *)

Trees == {parse_file(files[i]) : i \in 1..Len(files)}

\* the package a file declares
DeclaredPackage(f) ==
  IF \E i \in 1..Len(f.elems) : f.elems[i].t = "package"
  THEN f.elems[CHOOSE i \in 1..Len(f.elems) : f.elems[i].t = "package"].name
  ELSE Unset

\* the (package, name) pair a type reference written in file f denotes: the
\* lowercase-initial segments are the package, absent which f's package is; the
\* last segment is the name
SymbolOf(f, type) ==
  <<IF SelectSeq(type.segs, IsLower) # <<>> THEN SelectSeq(type.segs, IsLower)
    ELSE DeclaredPackage(f),
    type.segs[Len(type.segs)]>>

IsScalar(type) == type.segs[Len(type.segs)] \in ScalarTypes

RECURSIVE FieldTypes(_)
\* the types of the plain, map-value, oneof-member and group fields of a body
FieldTypes(body) ==
  UNION {CASE body[i].t \in {"field", "map", "oneoffield"} ->
                IF IsScalar(body[i].type) THEN {} ELSE {body[i].type}
           [] body[i].t \in {"group", "oneof", "oneofgroup"} -> FieldTypes(body[i].body)
           [] OTHER -> {}
         : i \in 1..Len(body)}

RECURSIVE Messages(_)
\* the message declarations of a body, nested ones included
Messages(body) ==
  UNION {CASE body[i].t = "message" -> {body[i]} \cup Messages(body[i].body)
           [] body[i].t \in {"group", "oneof", "oneofgroup"} -> Messages(body[i].body)
           [] OTHER -> {}
         : i \in 1..Len(body)}

\* the rpc methods declared in file f
Methods(f) ==
  UNION {IF f.elems[i].t = "service"
         THEN {f.elems[i].body[j] : j \in {k \in 1..Len(f.elems[i].body) :
                                            f.elems[i].body[k].t = "rpc"}}
         ELSE {}
         : i \in 1..Len(f.elems)}

\* depends-on between declared types: a message and the types of its fields
TypeEdges ==
  UNION {UNION {{<<<<DeclaredPackage(f), d.name>>, SymbolOf(f, ty)>> : ty \in FieldTypes(d.body)}
                : d \in Messages(f.elems)}
         : f \in Trees}

RECURSIVE Closure(_, _)
\* everything reachable from the set S over the edges E
Closure(S, E) ==
  LET more == S \cup {e[2] : e \in {d \in E : d[1] \in S}}
  IN IF more = S THEN S ELSE Closure(more, E)

\* the types rpc method M of file f depends on, directly or transitively
DependsOn(f, M) ==
  Closure({SymbolOf(f, ty) : ty \in {t \in {M.input, M.output} : ~IsScalar(t)}}, TypeEdges)

\* an option qualifies if the allow-list is empty or holds its bare name
Qualifies(option) ==
  \/ include_rpc_with_option_names = <<>>
  \/ option.name.name \in Range(include_rpc_with_option_names)

\* the body of rpc method M holds a qualifying option
Kept(M) ==
  /\ ~M.semicolon
  /\ \E i \in 1..Len(M.body) : M.body[i].t = "option" /\ Qualifies(M.body[i])

\* the alive flag of the symbol of a (package, name) pair
Alive(key) == key \in DOMAIN usage_nodes /\ heap[usage_nodes[key]].should_render

\* update_should_render_state has returned
Propagated == phase \in {"DryRender", "FinalRender", "Done"}

\* update_should_render_state has just returned: no file is render-walked yet
JustPropagated == phase = "DryRender" /\ pos = 1

\* the depends-on edges of the usage graph, between UsageNode objects
GraphEdges ==
  UNION {{<<n, heap[n].children[j]>> : j \in 1..Len(heap[n].children)} : n \in 1..Len(heap)}

RECURSIVE PackageBefore(_, _)
\* the value of package_name when element j of the i-th file is walked in the
\* graph-build pass: the last package declaration walked before it, in this
\* file or an earlier one
PackageBefore(i, j) ==
  IF i = 0 THEN Unset
  ELSE IF j > 1
  THEN IF parse_file(files[i]).elems[j - 1].t = "package"
       THEN parse_file(files[i]).elems[j - 1].name
       ELSE PackageBefore(i, j - 1)
  ELSE IF i = 1 THEN Unset
  ELSE PackageBefore(i - 1, Len(parse_file(files[i - 1]).elems) + 1)

\* where the rpc methods of the corpus stand: <<file, file element, service element>>
RpcSites ==
  UNION {UNION {{<<i, j, n>> :
                   n \in {k \in 1..Len(parse_file(files[i]).elems[j].body) :
                            parse_file(files[i]).elems[j].body[k].t = "rpc"}}
                : j \in {k \in 1..Len(parse_file(files[i]).elems) :
                           parse_file(files[i]).elems[k].t = "service"}}
         : i \in 1..Len(files)}

MethodAt(site) == parse_file(files[site[1]]).elems[site[2]].body[site[3]]

\* the (package, name) pair under which the walk resolves the method's name
RpcKey(site) == <<PackageBefore(site[1], site[2]), MethodAt(site).name>>

\* the objects that are the symbol of an rpc method whose body holds an option
\* the walk accepts
KeptRpcNodes ==
  {usage_nodes[RpcKey(site)] :
     site \in {x \in RpcSites : /\ generate_method_elements(MethodAt(x))
                               /\ RpcKey(x) \in DOMAIN usage_nodes}}

GoogleNodes == {n \in 1..Len(heap) : heap[n].package = GoogleProtobuf}

-----------------------------------------------------------------------------
(* Claims *)

\* C1: after graph build and propagation, every type that an rpc with a
\* qualifying option depends on, directly or through any chain of plain,
\* map-value, oneof-member or group field types, is alive.  (Stated for the
\* rpcs whose option the walk itself accepts and whose own symbol is alive, so
\* that a violation is one of reachability and not of the option filter or of
\* the seeding.)
C1_DependenciesAlive ==
  JustPropagated =>
    \A f \in Trees : \A M \in Methods(f) :
      generate_method_elements(M) /\ Alive(<<DeclaredPackage(f), M.name>>)
        => \A X \in DependsOn(f, M) : Alive(X)

\* C2 as stated: after propagation every symbol outside google.protobuf that no
\* kept rpc reaches over depends-on edges is not alive.
C2_UnreachedDead ==
  JustPropagated =>
    \A n \in 1..Len(heap) :
      heap[n].package # GoogleProtobuf /\ n \notin Closure(KeptRpcNodes, GraphEdges)
        => ~heap[n].should_render

\* C2 amended: after propagation every symbol outside google.protobuf that
\* neither a kept rpc nor a google.protobuf symbol reaches over depends-on
\* edges is not alive.
C2_UnreachedFromRootsDead ==
  JustPropagated =>
    \A n \in 1..Len(heap) :
      /\ heap[n].package # GoogleProtobuf
      /\ n \notin Closure(KeptRpcNodes \cup GoogleNodes, GraphEdges)
      => ~heap[n].should_render

\* C2 witness: propagation has returned over a graph in which a kept rpc and a
\* google.protobuf symbol each reach a symbol, and a third symbol is reached by
\* neither
C2_Witness ==
  /\ JustPropagated
  /\ KeptRpcNodes # {}
  /\ \E g \in GoogleNodes : \E n \in Closure({g}, GraphEdges) :
       heap[n].package # GoogleProtobuf /\ n \notin Closure(KeptRpcNodes, GraphEdges)
  /\ \E n \in 1..Len(heap) :
       /\ heap[n].package # GoogleProtobuf
       /\ n \notin Closure(KeptRpcNodes \cup GoogleNodes, GraphEdges)
       /\ ~heap[n].should_render

\* C3: at most one graph symbol exists per (package, name) pair over the whole
\* run, the table leads from each pair to the one symbol that carries it, and
\* when the run is done a top-level message whose pair is alive, through
\* whichever file it was marked, stands in the output of the file declaring it.
C3_OneSymbolPerKey ==
  /\ \A i, j \in 1..Len(heap) :
       heap[i].package = heap[j].package /\ heap[i].name = heap[j].name => i = j
  /\ \A key \in DOMAIN usage_nodes :
       /\ usage_nodes[key] \in 1..Len(heap)
       /\ <<heap[usage_nodes[key]].package, heap[usage_nodes[key]].name>> = key
  /\ phase = "Done" =>
       \A i \in 1..Len(files) : \A j \in 1..Len(parse_file(files[i]).elems) :
         LET f == parse_file(files[i])
             el == f.elems[j]
         IN /\ el.t = "message"
            /\ \A k \in 1..Len(reported) : reported[k].path # RelPath(f)
            /\ \E n \in 1..Len(heap) : /\ heap[n].package = PackageBefore(i, j)
                                       /\ heap[n].name = el.name
                                       /\ heap[n].should_render
            => /\ RelPath(f) \in DOMAIN dest
               /\ el \in Range(dest[RelPath(f)])

\* C3 witness: the run is done; a message declared in one file is referenced by
\* its qualified name from a message of another file, no rpc of its own file is
\* alive, and its declaration stands in the output of its own file
C3_Witness ==
  /\ phase = "Done"
  /\ \E i, k \in 1..Len(files) :
       /\ i # k
       /\ \A M \in Methods(parse_file(files[k])) :
            ~Alive(<<DeclaredPackage(parse_file(files[k])), M.name>>)
       /\ \E j \in 1..Len(parse_file(files[k]).elems) :
            LET el == parse_file(files[k]).elems[j]
            IN /\ el.t = "message"
               /\ \E d \in Messages(parse_file(files[i]).elems) :
                    \E ty \in FieldTypes(d.body) :
                      /\ Len(ty.segs) > 1
                      /\ SymbolOf(parse_file(files[i]), ty)
                           = <<DeclaredPackage(parse_file(files[k])), el.name>>
               /\ Alive(<<DeclaredPackage(parse_file(files[k])), el.name>>)
               /\ RelPath(parse_file(files[k])) \in DOMAIN dest
               /\ el \in Range(dest[RelPath(parse_file(files[k]))])

\* the text of the rpc method at a site stands in the written output of its file
MethodEmitted(site) ==
  LET f == parse_file(files[site[1]])
  IN /\ RelPath(f) \in DOMAIN dest
     /\ \E k \in 1..Len(dest[RelPath(f)]) :
          /\ dest[RelPath(f)][k].t = "service"
          /\ dest[RelPath(f)][k].name = f.elems[site[2]].name
          /\ MethodAt(site) \in Range(dest[RelPath(f)][k].body)

\* a step that walks the file at pos and returns without an exception
WalkReturns ==
  /\ visits' # visits
  /\ phase' # "Aborted"
  /\ reported' = reported

\* C4: with an empty option-name filter, every walk of a file leaves the symbol
\* of each of its rpc methods alive if and only if the method's body holds an
\* option declaration, and the final render writes the method's text if and
\* only if it does; a method ending in a semicolon or with a body holding no
\* option declaration is left not alive and is not written.
C4_RetainedIffOption ==
  [][include_rpc_with_option_names = <<>> /\ WalkReturns =>
       \A site \in RpcSites :
         site[1] = pos =>
           /\ Alive(RpcKey(site))' <=> Kept(MethodAt(site))
           /\ phase = "FinalRender" => (MethodEmitted(site)' <=> Kept(MethodAt(site)))]_vars

\* C4 witness: a run with an empty filter is done; a method whose body holds an
\* option was written and its symbol is alive, and a method ending in a
\* semicolon and a method whose body holds no option were not written and
\* their symbols are not alive
C4_Witness ==
  /\ phase = "Done"
  /\ include_rpc_with_option_names = <<>>
  /\ \E s1, s2, s3 \in RpcSites :
       /\ Kept(MethodAt(s1)) /\ MethodEmitted(s1) /\ Alive(RpcKey(s1))
       /\ MethodAt(s2).semicolon /\ ~MethodEmitted(s2) /\ ~Alive(RpcKey(s2))
       /\ ~MethodAt(s3).semicolon /\ ~Kept(MethodAt(s3))
       /\ ~MethodEmitted(s3) /\ ~Alive(RpcKey(s3))

\* C5: with a non-empty option-name filter, every walk of a file leaves the
\* symbol of each of its rpc methods alive if and only if some option
\* declaration of the method's body has a bare name in the filter, whether the
\* name is parenthesised or plain, and the final render writes the method's
\* text if and only if it is so.
C5_RetainedIffNamed ==
  [][include_rpc_with_option_names # <<>> /\ WalkReturns =>
       \A site \in RpcSites :
         site[1] = pos =>
           /\ Alive(RpcKey(site))' <=> Kept(MethodAt(site))
           /\ phase = "FinalRender" => (MethodEmitted(site)' <=> Kept(MethodAt(site)))]_vars

\* the path by which an import statement names file g: its path below the
\* source root
ImportPath(g) == IF g.dir = <<".">> THEN <<g.name>> ELSE g.dir \o <<g.name>>

\* C6: when a run in which no file raised is done, an import statement of a
\* written file that names a file of the corpus stands in the importer's output
\* if and only if the named file is written, wherever the named file lies.
\* (Stated for the runs in which the final render wrote the files that the dry
\* render recorded, so that a violation lies in the test of the import and not
\* in a flag that the render passes changed.)
C6_ImportIffWritten ==
  phase = "Done" /\ reported = <<>> /\ DOMAIN dest = Range(rendered_files) =>
    \A f, g \in Trees :
      \A j \in 1..Len(f.elems) :
        /\ RelPath(f) \in DOMAIN dest
        /\ f.elems[j].t = "import"
        /\ f.elems[j].path = ImportPath(g)
        => (f.elems[j] \in Range(dest[RelPath(f)]) <=> RelPath(g) \in DOMAIN dest)

\* some top-level message or enum, or some rpc method, of the i-th file has an
\* alive symbol
SomeDeclAlive(i) ==
  \/ \E j \in 1..Len(parse_file(files[i]).elems) :
       /\ parse_file(files[i]).elems[j].t \in {"message", "enum"}
       /\ Alive(<<PackageBefore(i, j), parse_file(files[i]).elems[j].name>>)
  \/ \E site \in RpcSites : site[1] = i /\ Alive(RpcKey(site))

\* C7: a final-render walk of a file that returns writes the file at its
\* mirrored path if and only if, as the walk leaves the graph, one of the
\* file's top-level messages or enums or one of its service methods is alive;
\* with none alive the file is not written.
C7_WrittenIffAlive ==
  [][phase = "FinalRender" /\ WalkReturns =>
       \A i \in {pos} :
         RelPath(parse_file(files[i])) \in DOMAIN dest' <=> SomeDeclAlive(i)']_vars

\* C7 witness: a run in which no file raised is done; one file with an alive
\* declaration is written, and another file that declares a message and has
\* no alive declaration is not
C7_Witness ==
  /\ phase = "Done"
  /\ reported = <<>>
  /\ \E i, k \in 1..Len(files) :
       /\ SomeDeclAlive(i)
       /\ RelPath(parse_file(files[i])) \in DOMAIN dest
       /\ ~SomeDeclAlive(k)
       /\ Messages(parse_file(files[k]).elems) # {}
       /\ RelPath(parse_file(files[k])) \notin DOMAIN dest

\* C8: the run over the one file a.proto (package p; message A with a field of
\* type B; message B with a scalar field; unreferenced message C; service S
\* with rpc Get(A) returns (B) whose body has option (tracked)) with the filter
\* ["tracked"], once done, has written for the file an output that holds the
\* declarations of A and of B and service S with method Get, and nothing named C.
C8_TrackedExample ==
  /\ files = <<"a.proto">>
  /\ include_rpc_with_option_names = <<tracked>>
  /\ phase = "Done"
  => /\ RelPath(FileA) \in DOMAIN dest
     /\ FileA.elems[2] \in Range(dest[RelPath(FileA)])
     /\ FileA.elems[3] \in Range(dest[RelPath(FileA)])
     /\ Svc("S", <<FileA.elems[5].body[1]>>) \in Range(dest[RelPath(FileA)])
     /\ \A k \in 1..Len(dest[RelPath(FileA)]) :
          dest[RelPath(FileA)][k].t \in {"message", "enum", "service"}
            => dest[RelPath(FileA)][k].name # "C"

\* C8 witness: that run is done and the output of a.proto is written
C8_Witness ==
  /\ files = <<"a.proto">>
  /\ include_rpc_with_option_names = <<tracked>>
  /\ phase = "Done"
  /\ FileA.elems[2].name = "A" /\ FileA.elems[3].name = "B"
  /\ FileA.elems[4].name = "C" /\ FileA.elems[5].body[1].name = "Get"
  /\ RelPath(FileA) \in DOMAIN dest

\* two symbols lie on a common reference cycle: each reaches the other over
\* one or more depends-on edges
OnCycle(a, b) ==
  /\ b \in Closure({e[2] : e \in {d \in GraphEdges : d[1] = a}}, GraphEdges)
  /\ a \in Closure({e[2] : e \in {d \in GraphEdges : d[1] = b}}, GraphEdges)

\* propagation, once started, returns, and its recursion never gets as deep as
\* MaxDepth
PropagationReturns ==
  /\ (phase = "Propagate") ~> (phase = "DryRender")
  /\ [](Len(prop.stack) < MaxDepth)

\* C9: propagation, once started, returns, on every graph, those with
\* self-referential and mutually referential messages included, and when it
\* has returned all the symbols of a reference cycle have the same alive value.
C9_TerminatesCyclesAgree ==
  /\ (phase = "Propagate") ~> (phase = "DryRender")
  /\ [](JustPropagated =>
          \A a, b \in 1..Len(heap) :
            OnCycle(a, b) => heap[a].should_render = heap[b].should_render)

\* the walks of phase ph so far have visited every file of the corpus exactly once
VisitedOnce(ph) ==
  \A k \in 1..Len(files) :
    Cardinality({i \in 1..Len(visits) : visits[i] = <<ph, k>>}) = 1

\* no file has been walked in phase ph yet
NotVisited(ph) == \A i \in 1..Len(visits) : visits[i][1] # ph

\* the order of the run apart from how a phase may end: propagation starts
\* after the graph build of every file, a file is render-walked only after
\* propagation has returned, the final render starts after the dry render of
\* every file, and a run that is done has visited every file once in each phase
PhasesInOrder ==
  /\ phase = "GraphBuild" => NotVisited("DryRender") /\ NotVisited("FinalRender")
  /\ phase = "Propagate" =>
       VisitedOnce("GraphBuild") /\ NotVisited("DryRender") /\ NotVisited("FinalRender")
  /\ phase = "DryRender" =>
       /\ VisitedOnce("GraphBuild") /\ NotVisited("FinalRender")
       /\ prop.stack = <<>> /\ prop.i > Len(heap)
  /\ phase = "FinalRender" => VisitedOnce("GraphBuild") /\ VisitedOnce("DryRender")
  /\ phase = "Done" =>
       VisitedOnce("GraphBuild") /\ VisitedOnce("DryRender") /\ VisitedOnce("FinalRender")

\* C10: a run moves from GraphBuild (with the propagation that closes it) to
\* DryRender, from DryRender to FinalRender and from FinalRender to Done, and
\* makes no other transition; the graph build of every file and then
\* propagation complete before any file is render-walked, the dry render of
\* every file completes before the final render of any file, and each phase
\* visits every file exactly once.
C10_PhaseSequence ==
  /\ [][phase' # phase =>
          <<phase, phase'>> \in {<<"GraphBuild", "Propagate">>, <<"Propagate", "DryRender">>,
                                 <<"DryRender", "FinalRender">>, <<"FinalRender", "Done">>}]_vars
  /\ []PhasesInOrder

\* the walk of the file at pos raises nothing of its own, so that a step that
\* fails on the file fails in reading or parsing it
WalkIsClean ==
  IF phase = "GraphBuild"
  THEN ~Failed(create_usage_graph(Modifier, parse_file(files[pos])))
  ELSE ~Failed(regenerate_file(Modifier, parse_file(files[pos])).m)

\* a step on the file at pos that returned, or whose failure was caught: the
\* run stays in its phase and goes on to the next file, and if the step
\* failed the file's path and the error are reported and nothing is written
CaughtOrReturned ==
  /\ phase' = phase
  /\ pos' = pos + 1
  /\ \/ reported' = reported
     \/ /\ Len(reported') = Len(reported) + 1
        /\ reported'[Len(reported')].path = RelPath(parse_file(files[pos]))
        /\ dest' = dest

\* C11: in whichever of the three phases reading or parsing a file fails, the
\* failure is caught: the file's path and the error are reported, nothing is
\* written for the file, and the run stays in its phase and goes on to the
\* next file.
C11_FailureCaught ==
  [][visits' # visits /\ WalkIsClean => CaughtOrReturned]_vars

\* the same in the two render phases only
FailureCaughtInRender ==
  [][visits' # visits /\ phase # "GraphBuild" => CaughtOrReturned]_vars

\* the render walk of the file at pos, which can be read, looks up a
\* (package, name) pair that the graph does not hold
UnresolvedReference ==
  /\ phase \in {"DryRender", "FinalRender"}
  /\ ~parse_file(files[pos]).flaky
  /\ regenerate_file(Modifier, parse_file(files[pos])).m.err = "KeyError"

\* such a walk is given up and reported under the file's path, and nothing is
\* written or recorded for the file
UnresolvedAbortsFile ==
  [][visits' # visits /\ UnresolvedReference =>
       /\ dest' = dest
       /\ rendered_files' = rendered_files
       /\ Len(reported') = Len(reported) + 1
       /\ reported'[Len(reported')].path = RelPath(parse_file(files[pos]))]_vars

\* C12: a render walk that looks up a pair absent from the graph is given up
\* without output for the file, is reported, and the report names the error
\* kind "unresolved type reference".
C12_UnresolvedReported ==
  [][visits' # visits /\ UnresolvedReference =>
       /\ dest' = dest
       /\ rendered_files' = rendered_files
       /\ Len(reported') = Len(reported) + 1
       /\ reported'[Len(reported')] = [path |-> RelPath(parse_file(files[pos])),
                                       error |-> "unresolved type reference"]]_vars

\* C13: a step of DryRender leaves the destination as it is, and a dry-render
\* walk appends the file's relative path to rendered_files if it returns with
\* its flag set and leaves rendered_files alone otherwise; a step of
\* FinalRender leaves rendered_files as it is.
C13_DryRenderWritesNothing ==
  [][/\ phase = "DryRender" =>
          /\ dest' = dest
          /\ visits' # visits =>
               rendered_files' =
                 IF WalkReturns /\ regenerate_file(Modifier, parse_file(files[pos])).flag
                 THEN Append(rendered_files, RelPath(parse_file(files[pos])))
                 ELSE rendered_files
     /\ phase = "FinalRender" => rendered_files' = rendered_files]_vars

\* C13 witness: the final render has written a file, after a dry render that
\* recorded that file and left another unrecorded
C13_Witness ==
  /\ phase = "FinalRender"
  /\ pos = 2
  /\ reported = <<>>
  /\ DOMAIN dest = {RelPath(parse_file(files[1]))}
  /\ rendered_files = <<RelPath(parse_file(files[1]))>>
  /\ Len(files) = 2

\* C14: no step of the run, in graph build, propagation, dry render or final
\* render, sets the alive flag of a symbol from true back to false.
C14_AliveMonotonic ==
  [][\A n \in 1..Len(heap) : heap[n].should_render => heap'[n].should_render]_vars

\* the names of the builtin scalar types
BuiltinScalars ==
  {"bool", "string", "bytes", "float", "double", "int32", "int64", "uint32",
   "uint64", "sint32", "sint64", "fixed32", "fixed64", "sfixed32", "sfixed64"}

\* C15: no symbol of the graph and no key of the table carries the name of a
\* builtin scalar type, and in every state of the run, in graph build and in
\* the render passes, resolving a scalar type name from any enclosing symbol
\* returns no symbol and leaves the graph as it is.
C15_ScalarsUnresolved ==
  /\ \A n \in 1..Len(heap) : heap[n].name \notin BuiltinScalars
  /\ \A key \in DOMAIN usage_nodes : key[2] \notin BuiltinScalars
  /\ \A m \in {[Modifier EXCEPT !.usage_graph_creation_phase = creating] :
                creating \in BOOLEAN} :
       \A scalar \in BuiltinScalars :
         \A usage_parent \in {None} \cup (1..Len(heap)) :
           create_usage_node_from_type_name(m, <<scalar>>, usage_parent, "None")
             = [m |-> m, node |-> None]

\* C15 witness: the graph is built over a corpus in which a message has a
\* field of a scalar type and no field of another type; the message's symbol
\* exists and has no child
C15_Witness ==
  /\ phase = "Propagate"
  /\ \E f \in Trees : \E d \in Messages(f.elems) :
       /\ \E k \in 1..Len(d.body) : d.body[k].t = "field" /\ IsScalar(d.body[k].type)
       /\ FieldTypes(d.body) = {}
       /\ <<DeclaredPackage(f), d.name>> \in DOMAIN usage_nodes
       /\ heap[usage_nodes[<<DeclaredPackage(f), d.name>>]].children = <<>>

\* the symbols that are alive
AliveNodes == {n \in 1..Len(heap) : heap[n].should_render}

\* C16: when propagation has returned, the alive symbols are exactly those
\* reachable over children edges from the symbols that were seeded alive when
\* it was called and from the symbols of package google.protobuf, these
\* included.
C16_AliveIsLeastClosed ==
  JustPropagated => AliveNodes = Closure(prop.seeded \cup GoogleNodes, GraphEdges)

\* of this, what does not rest on propagation starting from every seeded
\* symbol: the seeded and the google.protobuf symbols are alive, and nothing
\* beyond what they reach is
AliveWithinClosure ==
  JustPropagated =>
    /\ prop.seeded \cup GoogleNodes \subseteq AliveNodes
    /\ AliveNodes \subseteq Closure(prop.seeded \cup GoogleNodes, GraphEdges)

\* site a is walked before site b
SiteBefore(a, b) ==
  \/ a[1] < b[1]
  \/ a[1] = b[1] /\ a[2] < b[2]
  \/ a[1] = b[1] /\ a[2] = b[2] /\ a[3] < b[3]

\* the rpc methods whose name resolves to the symbol n, and the one of them
\* that is walked last
SitesOf(n) == {x \in RpcSites : RpcKey(x) = <<heap[n].package, heap[n].name>>}
LastSiteOf(n) == CHOOSE x \in SitesOf(n) : \A y \in SitesOf(n) : y = x \/ SiteBefore(y, x)

\* the graph-build pass has returned and update_should_render_state has not
\* made its first test
GraphBuilt == phase = "Propagate" /\ prop.i = 1 /\ prop.stage = 1 /\ prop.stack = <<>>

\* C17 as stated: building the usage graph changes no alive flag, so at the
\* end of the graph-build phase every symbol has alive false.
C17_GraphBuildLeavesFlags ==
  GraphBuilt => \A n \in 1..Len(heap) : ~heap[n].should_render

\* C17 amended: building the usage graph sets alive flags, but only of the
\* symbols that rpc method names resolve to: at the end of the graph-build
\* phase a symbol is alive exactly if some rpc method's name resolves to it
\* and the last-walked such method has an option the walk accepts.
C17_GraphBuildSeedsRpcOnly ==
  GraphBuilt =>
    \A n \in 1..Len(heap) :
      heap[n].should_render <=>
        /\ SitesOf(n) # {}
        /\ generate_method_elements(MethodAt(LastSiteOf(n)))

\* the graph is built, some rpc symbol is alive, some rpc symbol is not, and
\* some symbol that no rpc name resolves to exists
C17_Witness ==
  /\ GraphBuilt
  /\ \E n \in 1..Len(heap) : heap[n].should_render
  /\ \E n \in 1..Len(heap) : SitesOf(n) # {} /\ ~heap[n].should_render
  /\ \E n \in 1..Len(heap) : SitesOf(n) = {}

\* lines 1122-1125 without the recursive call: only the children are marked
each_shallow(h, n, c) ==
  [k \in 1..Len(h) |->
     [h[k] EXCEPT !.should_render = @ \/ \E j \in c..Len(h[n].children) : h[n].children[j] = k]]

RECURSIVE each_from(_, _, _)
\* modifier.py 1122-1125: the loop of update_should_render_state_each over the
\* children of n from the c-th on, h the symbols, the recursive call of line
\* 1125 made before the loop goes on
each_from(h, n, c) ==
  IF c > Len(h[n].children) THEN h
  ELSE IF h[h[n].children[c]].should_render THEN each_from(h, n, c + 1)
  ELSE each_from(each_from([h EXCEPT ![h[n].children[c]].should_render = TRUE],
                           h[n].children[c], 1),
                 n, c + 1)

\* modifier.py 1121-1125 as a function of the symbols
update_should_render_state_each(h, n) == each_from(h, n, 1)

\* lines 1115-1116 as a single sweep: every alive symbol marks its children
\* and no call descends
visit_alive_once(h, n) ==
  IF h[n].should_render THEN each_shallow(h, n, 1) ELSE h

\* lines 1115-1116 for the symbol n
visit_rpc(h, n) ==
  IF h[n].kind = "Rpc" /\ h[n].should_render
  THEN update_should_render_state_each(h, n)
  ELSE h

\* lines 1117-1119 for the symbol n
visit_google(h, n) ==
  IF h[n].package = GoogleProtobuf
  THEN update_should_render_state_each([h EXCEPT ![n].should_render = TRUE], n)
  ELSE h

RECURSIVE visit_from(_, _, _)
\* the loop of line 1114 from the k-th symbol of the order on
visit_from(h, order, k) ==
  IF k > Len(order) THEN h
  ELSE visit_from(visit_google(visit_rpc(h, order[k]), order[k]), order, k + 1)

\* modifier.py 1113-1119 as a function of the symbols and of the order in which
\* usage_nodes.values() yields them
update_should_render_state(h, order) == visit_from(h, order, 1)

\* the symbols as propagation found them: the graph as it is, the flags as
\* the graph-build pass left them
SeededHeap == [n \in 1..Len(heap) |-> [heap[n] EXCEPT !.should_render = n \in prop.seeded]]

\* the alive set of a symbol table
AliveIn(h) == {n \in 1..Len(h) : h[n].should_render}

\* the symbols whose visit can act: lines 1115 and 1117 both fail for the rest
Acting == {n \in 1..Len(heap) : heap[n].kind = "Rpc" \/ heap[n].package = GoogleProtobuf}

RECURSIVE Perms(_)
\* the sequences that hold every element of S once
Perms(S) ==
  IF S = {} THEN {<<>>}
  ELSE UNION {{<<x>> \o p : p \in Perms(S \ {x})} : x \in S}

RECURSIVE Ascending(_)
\* the elements of a set of numbers, smallest first
Ascending(S) ==
  IF S = {} THEN <<>>
  ELSE <<CHOOSE x \in S : \A y \in S : x <= y>>
         \o Ascending(S \ {CHOOSE x \in S : \A y \in S : x <= y})

Reverse(seq) == [k \in 1..Len(seq) |-> seq[Len(seq) + 1 - k]]
Rotate(seq, r) == [k \in 1..Len(seq) |-> seq[((k - 1 + r) % Len(seq)) + 1]]
Swap(seq, a, b) == [k \in 1..Len(seq) |-> IF k = a THEN seq[b] ELSE IF k = b THEN seq[a] ELSE seq[k]]

\* the order of usage_nodes.values(): symbols in the order they were created
Created == [k \in 1..Len(heap) |-> k]

\* orders of a table too large to try them all: the rotations of the creation
\* order and of its reverse, and the creation order with two symbols swapped
SomeOrders ==
  {Rotate(Created, r) : r \in 0..Len(heap)}
    \cup {Rotate(Reverse(Created), r) : r \in 0..Len(heap)}
    \cup {Swap(Created, a, b) : a, b \in 1..Len(heap)}

\* the orders in which the acting symbols come in a given order, before or
\* after the rest
ActingOrders(S) ==
  UNION {{p \o Ascending((1..Len(heap)) \ Acting), Ascending((1..Len(heap)) \ Acting) \o p}
         : p \in S}

\* the iteration orders tried: all of them over a small table, and over a
\* larger one every order of the acting symbols when these are few
Orders ==
  IF Len(heap) <= MaxPermute THEN Perms(1..Len(heap))
  ELSE IF Cardinality(Acting) <= MaxPermute
  THEN SomeOrders \cup ActingOrders(Perms(Acting))
  ELSE SomeOrders \cup ActingOrders({Ascending(Acting), Reverse(Ascending(Acting))})

\* C18: for the graph and the seeded flags that propagation was given, every
\* iteration order over the symbol table gives the alive set that propagation
\* left, which visited the symbols in the order of their creation.
C18_OrderImmaterial ==
  JustPropagated =>
    /\ AliveNodes = AliveIn(update_should_render_state(SeededHeap, Created))
    /\ \A order \in Orders :
         AliveIn(update_should_render_state(SeededHeap, order)) = AliveNodes

\* propagation has returned over a table of more than one acting symbol and
\* has marked a symbol that was not seeded, which an rpc symbol that is not
\* the first in creation order reaches
C18_Witness ==
  /\ JustPropagated
  /\ Cardinality(Acting) > 1
  /\ \E n \in AliveNodes \ prop.seeded : heap[n].package # GoogleProtobuf
  /\ \E r \in prop.seeded, n \in AliveNodes \ prop.seeded :
       /\ heap[r].kind = "Rpc"
       /\ r > 1
       /\ n \in Closure({r}, GraphEdges)

RECURSIVE NamedDecls(_)
\* the message and enum declarations in a sequence of elements, at any depth
NamedDecls(body) ==
  UNION {CASE body[i].t = "message" -> {body[i]} \cup NamedDecls(body[i].body)
           [] body[i].t = "enum" -> {body[i]}
           [] body[i].t \in {"group", "oneof", "oneofgroup"} -> NamedDecls(body[i].body)
           [] OTHER -> {}
         : i \in 1..Len(body)}

\* the message and enum declarations among the elements themselves
TopDecls(body) == {body[i] : i \in {k \in 1..Len(body) : body[k].t \in {"message", "enum"}}}

\* the file's package declaration comes before its other declarations, so
\* that every name declared in it resolves in the file's own package
PackageLeads(f) == f.elems # <<>> /\ f.elems[1].t = "package"

\* the symbols named by a set of declarations of file f
KeysOf(f, decls) == {<<DeclaredPackage(f), d.name>> : d \in decls}

\* C19: the text written for a file holds a message or enum declaration, at
\* top level or nested inside a message, only if the declaration's symbol is
\* alive (before the walk that wrote it or after it).
C19_DeclWrittenOnlyIfAlive ==
  [][phase = "FinalRender" /\ WalkReturns =>
       \A f \in {parse_file(files[pos])} :
         PackageLeads(f) /\ RelPath(f) \in DOMAIN dest' =>
           \A key \in KeysOf(f, NamedDecls(dest'[RelPath(f)])) :
             Alive(key) \/ Alive(key)']_vars

\* of this, the part about the declarations at top level
TopLevelWrittenOnlyIfAlive ==
  [][phase = "FinalRender" /\ WalkReturns =>
       \A f \in {parse_file(files[pos])} :
         PackageLeads(f) /\ RelPath(f) \in DOMAIN dest' =>
           \A key \in KeysOf(f, TopDecls(dest'[RelPath(f)])) :
             Alive(key) \/ Alive(key)']_vars

\* the service declarations among the elements of a file or of a written text
Services(elems) == {elems[i] : i \in {k \in 1..Len(elems) : elems[k].t = "service"}}

\* the rpc methods in the body of a service
MethodsIn(service) ==
  {service.body[i] : i \in {k \in 1..Len(service.body) : service.body[k].t = "rpc"}}

\* C20: in the text written for a file, a service of the file appears if one
\* of its methods is alive (before the walk that wrote the text or after it),
\* and every service that appears holds at least one method: no empty service
\* shell is written.  (A service one of whose methods has a qualifying option
\* is left aside in the second half, so that a violation is a shell written
\* for a service that has nothing to keep, and not a method lost to the option
\* filter.)
C20_NoEmptyService ==
  [][phase = "FinalRender" /\ WalkReturns =>
       \A f \in {parse_file(files[pos])} :
         PackageLeads(f) /\ RelPath(f) \in DOMAIN dest' =>
           /\ \A service \in Services(f.elems) :
                (\E key \in KeysOf(f, MethodsIn(service)) : Alive(key) \/ Alive(key)')
                  => \E w \in Services(dest'[RelPath(f)]) : w.name = service.name
           /\ \A w \in Services(dest'[RelPath(f)]) :
                \/ MethodsIn(w) # {}
                \/ \E service \in Services(f.elems) :
                     service.name = w.name /\ \E M \in MethodsIn(service) : Kept(M)]_vars

\* of this, the first half: a service with an alive method appears in the text
ServiceWithAliveMethodWritten ==
  [][phase = "FinalRender" /\ WalkReturns =>
       \A f \in {parse_file(files[pos])} :
         PackageLeads(f) /\ RelPath(f) \in DOMAIN dest' =>
           \A service \in Services(f.elems) :
             (\E key \in KeysOf(f, MethodsIn(service)) : Alive(key) \/ Alive(key)')
               => \E w \in Services(dest'[RelPath(f)]) : w.name = service.name]_vars

\* the kinds of declaration that map to no symbol
Unconditional == {"package", "option", "empty"}

\* the declarations of these kinds in a sequence of elements
UnconditionalIn(body) ==
  {body[i] : i \in {k \in 1..Len(body) : body[k].t \in Unconditional}}

\* element el stands in the sequence of elements text
WrittenIn(el, text) == \E k \in 1..Len(text) : text[k].t = el.t /\ text[k] = el

\* the declarations of file f that map to no symbol and lie at file level are
\* in the text, and so is the syntax declaration
FileLevelWritten(f, text) ==
  /\ f.syntax => \E k \in 1..Len(text) : text[k].t = "syntax"
  /\ \A el \in UnconditionalIn(f.elems) : WrittenIn(el, text)

\* those that lie in a message or enum of the text are in it with their text
DeclLevelWritten(f, text) ==
  \A d \in NamedDecls(text) :
    \E src \in NamedDecls(f.elems) :
      /\ src.t = d.t /\ src.name = d.name
      /\ \A el \in UnconditionalIn(src.body) : WrittenIn(el, d.body)

\* those that lie in a service of f are in the service of that name in the text
ServiceLevelWritten(f, text) ==
  \A service \in Services(f.elems) :
    \E w \in Services(text) :
      /\ w.name = service.name
      /\ \A el \in UnconditionalIn(service.body) : WrittenIn(el, w.body)

\* C21: the text written for a file holds the file's syntax and package
\* declarations and every option declaration and empty statement of the file
\* that lies at file level, in a message or enum that is written, or in a
\* service, whatever the alive flags and the option-name filter.
C21_UnconditionalWritten ==
  [][phase = "FinalRender" /\ WalkReturns =>
       \A f \in {parse_file(files[pos])} :
         RelPath(f) \in DOMAIN dest' =>
           /\ FileLevelWritten(f, dest'[RelPath(f)])
           /\ DeclLevelWritten(f, dest'[RelPath(f)])
           /\ ServiceLevelWritten(f, dest'[RelPath(f)])]_vars

\* of this, the part about file level and about messages and enums
UnconditionalOutsideServicesWritten ==
  [][phase = "FinalRender" /\ WalkReturns =>
       \A f \in {parse_file(files[pos])} :
         RelPath(f) \in DOMAIN dest' =>
           /\ FileLevelWritten(f, dest'[RelPath(f)])
           /\ DeclLevelWritten(f, dest'[RelPath(f)])]_vars

\* nested type references, with and without a package
NestedReferences ==
  {<<"Outer", "Inner">>, <<"q", "Outer", "Inner">>, <<"A", "B", "C">>, <<"p", "D", "D">>}

\* the modifier as it is while a usage graph is created
Creating == [Modifier EXCEPT !.usage_graph_creation_phase = TRUE]

\* the symbol that the i-th name part of reference ref has in modifier m
PartNode(m, ref, i) == m.usage_nodes[<<PackageOf(Creating, ref), NameParts(ref)[i]>>]

\* the symbol that the i-th name part is appended to: the enclosing symbol E
\* for the first, the symbol of the part before it for the others; with
\* lastToEnclosing, E for the last part as well
LinkParent(m, ref, E, i, lastToEnclosing) ==
  IF i = 1 \/ (lastToEnclosing /\ i = Len(NameParts(ref))) THEN E
  ELSE PartNode(m, ref, i - 1)

RECURSIVE LinksAdded(_, _, _, _, _, _)
\* the children appended to symbol x by the links of parts i and later
LinksAdded(m, ref, E, x, i, lastToEnclosing) ==
  IF i > Len(NameParts(ref)) THEN <<>>
  ELSE (IF LinkParent(m, ref, E, i, lastToEnclosing) = x
        THEN <<PartNode(m, ref, i)>> ELSE <<>>)
         \o LinksAdded(m, ref, E, x, i + 1, lastToEnclosing)

\* the children symbol x had before the reference was resolved
ChildrenBefore(x) == IF x <= Len(heap) THEN heap[x].children ELSE <<>>

\* resolving ref from E in a graph build returns the symbol of the last part
\* and appends to every symbol the links described, and nothing else
LinkedAs(ref, E, r, lastToEnclosing) ==
  /\ ~Failed(r.m)
  /\ r.node = PartNode(r.m, ref, Len(NameParts(ref)))
  /\ \A x \in 1..Len(r.m.heap) :
       r.m.heap[x].children
         = ChildrenBefore(x) \o LinksAdded(r.m, ref, E, x, 1, lastToEnclosing)

\* C22 as stated: resolved from enclosing symbol E in any state of the graph
\* build, the
\* first intermediate part is appended to E, every further intermediate part
\* to the one before it, and the last part to E itself.
C22_LastPartUnderEnclosing ==
  \A ref \in NestedReferences, E \in 1..Len(heap) :
    phase = "GraphBuild" /\ ResolveError(Creating, ref) = NoError =>
      \A r \in {create_usage_node_from_type_name(Creating, ref, E, "None")} :
        LinkedAs(ref, E, r, TRUE)

\* C22 amended: the last part is appended to the last intermediate symbol,
\* not to E.
C22_LastPartUnderIntermediate ==
  \A ref \in NestedReferences, E \in 1..Len(heap) :
    phase = "GraphBuild" /\ ResolveError(Creating, ref) = NoError =>
      \A r \in {create_usage_node_from_type_name(Creating, ref, E, "None")} :
        LinkedAs(ref, E, r, FALSE)

\* the graph is built from sub/c.proto, where message U has a field of type
\* Outer.Inner: Outer is a child of U, Inner is a child of Outer and not of U
C22_Witness ==
  /\ GraphBuilt
  /\ {<<<<"q">>, "U">>, <<<<"q">>, "Outer">>, <<<<"q">>, "Inner">>} \subseteq DOMAIN usage_nodes
  /\ usage_nodes[<<<<"q">>, "Outer">>] \in Range(heap[usage_nodes[<<<<"q">>, "U">>]].children)
  /\ usage_nodes[<<<<"q">>, "Inner">>] \in Range(heap[usage_nodes[<<<<"q">>, "Outer">>]].children)
  /\ usage_nodes[<<<<"q">>, "Inner">>] \notin Range(heap[usage_nodes[<<<<"q">>, "U">>]].children)

\* the graph-build walk of the i-th file has returned
GraphWalked(i) ==
  /\ phase # "Aborted"
  /\ \E k \in 1..Len(visits) : visits[k] = <<"GraphBuild", i>>

\* the names that the top-level messages and enums of f declare are symbols of
\* the package that f declares
DeclaredUnderOwnPackage(f) ==
  \A key \in KeysOf(f, TopDecls(f.elems)) : key \in DOMAIN usage_nodes

\* C23: once a file is walked in the graph build, the names of its top-level
\* messages and enums, which are written without a package, are symbols of the
\* package the file itself declares, also when the file declares no package or
\* declares it after them.
C23_ResolvedUnderOwnPackage ==
  \A i \in 1..Len(files) :
    GraphWalked(i) => DeclaredUnderOwnPackage(parse_file(files[i]))

\* of this, the case of the files whose package declaration comes first
OwnPackageWhenLeading ==
  \A i \in 1..Len(files) :
    GraphWalked(i) /\ PackageLeads(parse_file(files[i]))
      => DeclaredUnderOwnPackage(parse_file(files[i]))

\* every rpc method of the corpus is resolved under the package its own file
\* declares
RpcsUnderOwnPackage ==
  \A site \in RpcSites : RpcKey(site)[1] = DeclaredPackage(parse_file(files[site[1]]))

\* the symbol of the method at the site is alive exactly if the walk accepts
\* an option of the method's own body
FlagIsOwnOption(site) ==
  /\ RpcKey(site) \in DOMAIN usage_nodes
  /\ Alive(RpcKey(site)) <=> generate_method_elements(MethodAt(site))

\* C24: when propagation starts, the alive flag of the symbol of every rpc
\* method of the corpus tells whether that method's own body holds a
\* qualifying option, also for a method that shares its name with a method of
\* another service of the package or with a message or enum of the package.
C24_FlagIsOwnOption ==
  GraphBuilt /\ RpcsUnderOwnPackage => \A site \in RpcSites : FlagIsOwnOption(site)

\* of this, the case of the methods whose name no other method of the package
\* has
FlagIsOwnOptionWhenUnshared ==
  GraphBuilt =>
    \A site \in RpcSites :
      (\A other \in RpcSites : RpcKey(other) = RpcKey(site) => other = site)
        => FlagIsOwnOption(site)

\* C25: when a run in which no file raised is done, the files the final
\* render wrote are the files whose relative paths the dry render recorded.
C25_WrittenAreRecorded ==
  phase = "Done" /\ reported = <<>> => DOMAIN dest = Range(rendered_files)

\* of this, one direction: a file the final render wrote was recorded by the
\* dry render
WrittenWereRecorded ==
  phase = "Done" /\ reported = <<>> => DOMAIN dest \subseteq Range(rendered_files)

\* file f declares extend blocks and no message, enum or service
ExtendOnly(f) ==
  /\ \E j \in 1..Len(f.elems) : f.elems[j].t = "extend"
  /\ \A j \in 1..Len(f.elems) : f.elems[j].t \notin {"message", "enum", "service"}

\* the text written for some file holds an import statement that names file f
ImportedInOutput(f) ==
  \E rel \in DOMAIN dest :
    \E k \in 1..Len(dest[rel]) :
      dest[rel][k].t = "import" /\ dest[rel][k].path = ImportPath(f)

\* C26: a file of the corpus whose only declarations are extend blocks is at
\* no time recorded by the dry render or written by the final render, and no
\* text that is written holds an import statement naming it.
C26_ExtendOnlyNeverWritten ==
  \A f \in Trees :
    ExtendOnly(f) =>
      /\ RelPath(f) \notin Range(rendered_files)
      /\ RelPath(f) \notin DOMAIN dest
      /\ ~ImportedInOutput(f)

\* a run without a report is done over d.proto, which extends MethodOptions
\* with the option, and sub/k.proto, which imports it: sub/k.proto is written
\* with rpc Go, whose body holds the option, and without the import
C26_Witness ==
  /\ phase = "Done"
  /\ reported = <<>>
  /\ include_rpc_with_option_names = <<tracked>>
  /\ Range(files) = {"d.proto", "sub/k.proto"}
  /\ ExtendOnly(FileD)
  /\ \E j \in 1..Len(FileK.elems) :
       FileK.elems[j].t = "import" /\ FileK.elems[j].path = ImportPath(FileD)
  /\ RelPath(FileK) \in DOMAIN dest
  /\ \E w \in Services(dest[RelPath(FileK)]) : \E M \in MethodsIn(w) : M.name = "Go"
  /\ Alive(<<GoogleProtobuf, "MethodOptions">>)

\* the field types of file f that are written with a leading dot
DottedTypes(f) == {ty \in UNION {FieldTypes(d.body) : d \in Messages(f.elems)} : ty.dot}

\* the same reference written without the leading dot
Undotted(type) == [type EXCEPT !.dot = FALSE]

\* C27: the graph-build walk of a file that can be read and declares its
\* package first returns without error, and every field type of the file that
\* is written with a leading dot is then the symbol that the same reference
\* without the dot denotes.
C27_LeadingDotResolves ==
  [][phase = "GraphBuild" /\ visits' # visits =>
       \A f \in {parse_file(files[pos])} :
         ~f.flaky /\ PackageLeads(f) =>
           \A ty \in DottedTypes(f) :
             /\ WalkReturns
             /\ SymbolOf(f, Undotted(ty)) \in DOMAIN usage_nodes']_vars

\* in no state does the resolution of a reference with a leading dot return:
\* it raises IndexError, from any enclosing symbol and in any phase
LeadingDotRaises ==
  \A ref \in {<<"r", "L">>, <<"p", "A">>, <<"q", "Outer", "Inner">>},
     E \in {None} \cup 1..Len(heap), creating \in BOOLEAN :
    create_usage_node_from_type_name(
      [Modifier EXCEPT !.usage_graph_creation_phase = creating],
      generate_type_name(DotT(ref)), E, "None").m.err = "IndexError"

====
